---- MODULE Spec2Model ----
(***************************************************************************)
(* DynamicMultiChannelSineGenerator (manual_sine_wave.py).                 *)
(*                                                                         *)
(* Python lists are objects: the generator's fields frequencies and        *)
(* amplitudes hold references into a heap of lists, and so does a report   *)
(* returned by get_channel_info().  Amplitudes are written in tenths       *)
(* (0.5 is 5, 0.8 is 8).                                                   *)
(*                                                                         *)
(* Spec        the parameter store: the control API called by one control  *)
(*             context, one call after another.                            *)
(* ReportSpec  the reports of get_channel_info() between updates.          *)
(* StreamSpec  the control context, the worker threads spawned by start()  *)
(*             and the audio callback, interleaved.                        *)
(* FairSpec    start(), stop(), the workers and the callback under the     *)
(*             fairness the thread scheduler gives them.                   *)
(***************************************************************************)
EXTENDS Integers, Sequences, FiniteSets, TLC

VARIABLES
    num_channels,        \* self.num_channels
    available_channels,  \* self.available_channels
    frequencies,         \* self.frequencies: a reference into heap
    amplitudes,          \* self.amplitudes: a reference into heap
    heap,                \* the list objects: reference -> sequence
    info,                \* the report last returned by get_channel_info(), or NoInfo
    call,                \* the last control call that returned: its name, its channel
                         \* argument and the exception it raised to its caller
    lock,                \* self.lock: "free" or its holder
    ctlpc,               \* the control context's position
    is_playing,          \* self.is_playing
    thread,              \* self.thread: None or a worker
    wpc,                 \* each worker thread's position in run()
    werr,                \* each worker: an exception was raised in its try block
    stream,              \* each worker's sd.OutputStream: its state and channel count
    cbpc,                \* the position of the audio callback of each worker's stream
    chunk,               \* the block that callback asked for / generate_chunk returned
    framesRendered       \* frames written by the callbacks of each worker's stream
                         \* while it is open

storeVars  == <<num_channels, available_channels, frequencies, amplitudes, heap>>
threadVars == <<is_playing, thread, wpc, werr, stream>>
cbVars     == <<cbpc, chunk, framesRendered>>
vars == <<num_channels, available_channels, frequencies, amplitudes, heap, info,
          call, lock, ctlpc, is_playing, thread, wpc, werr, stream, cbpc,
          chunk, framesRendered>>

----------------------------------------------------------------------------
(* Bounds and input sets *)

MaxChannels == 2
MaxDeviceChannels == 3
NumWorkers == 2
MaxFrames == 2

\* an optional value: None, or Some(x)
None == <<>>
Some(x) == <<x>>
Val(o) == o[1]
Optional(S) == {None} \cup {Some(x) : x \in S}

NoInfo == <<>>
NoChunk == <<>>
NoError == "none"
Returned(op, arg, exc) == [op |-> op, arg |-> arg, raised |-> exc, printed |-> ""]
ReturnedAfterPrint(op, msg) == [op |-> op, arg |-> 0, raised |-> NoError, printed |-> msg]
NoThread == 0
ClosedStream == [state |-> "closed", channels |-> 0]

DefaultFrequency == 440
DefaultAmplitude == 5

Freqs == {DefaultFrequency, 880}
Amps == {DefaultAmplitude, 8}
ChannelCounts == 1..MaxChannels
ChannelArgs == -1..MaxChannels
Workers == 1..NumWorkers
BlockSizes == {1, 2}

\* what sd.query_devices(kind='output')['max_output_channels'] can give: an
\* exception, or the device's channel count
QueryFails == [ok |-> FALSE, max_output_channels |-> 0]
QueryResults ==
    {QueryFails} \cup {[ok |-> TRUE, max_output_channels |-> m] : m \in {1, MaxDeviceChannels}}

\* the lists a caller passes to update_all_channels: shorter than, as long
\* as and longer than num_channels, the two values alternating
Alternate(x, y, n) == [i \in 1..n |-> IF i % 2 = 1 THEN x ELSE y]
FreqLists == {Alternate(880, DefaultFrequency, n) : n \in 0..(MaxChannels + 1)}
AmpLists == {Alternate(8, DefaultAmplitude, n) : n \in 0..(MaxChannels + 1)}

----------------------------------------------------------------------------
(* Python lists *)

Min(a, b) == IF a <= b THEN a ELSE b
Max(a, b) == IF a >= b THEN a ELSE b

\* [x] * n
Repeat(x, n) == [i \in 1..Max(n, 0) |-> x]

\* lst[:n]
SliceTo(lst, n) ==
    LET stop == IF n < 0 THEN Max(Len(lst) + n, 0) ELSE Min(n, Len(lst))
    IN  SubSeq(lst, 1, stop)

\* the position lst[i] names, counted from 0: negative i counts from the end
ListPos(lst, i) == IF i < 0 THEN i + Len(lst) ELSE i

\* lst[i] exists (otherwise IndexError)
InRange(lst, i) == 0 <= ListPos(lst, i) /\ ListPos(lst, i) < Len(lst)

\* lst[i]
GetItem(lst, i) == lst[ListPos(lst, i) + 1]

\* lst[i] = v
SetItem(lst, i, v) == [lst EXCEPT ![ListPos(lst, i) + 1] = v]

----------------------------------------------------------------------------
(* The heap of list objects *)
(*                                                                         *)
(* Object identities are names only, so the objects are renamed at every   *)
(* rebinding: SelfFrequencies and SelfAmplitudes name the lists the        *)
(* generator holds, HeldFrequencies and HeldAmplitudes the lists that only *)
(* a returned report still holds.                                          *)

SelfFrequencies == 1
SelfAmplitudes == 2
HeldFrequencies == 3
HeldAmplitudes == 4
Refs == {SelfFrequencies, SelfAmplitudes, HeldFrequencies, HeldAmplitudes}

\* self.frequencies = fl and self.amplitudes = al, each a new list object or
\* None (the field keeps its object): the heap afterwards
RebindHeap(fl, al) ==
    LET heldF == fl # None /\ info # NoInfo /\ info[1].frequencies = frequencies
        heldA == al # None /\ info # NoInfo /\ info[1].amplitudes = amplitudes
    IN  [r \in Refs |->
            IF r = SelfFrequencies THEN (IF fl # None THEN Val(fl) ELSE heap[frequencies])
            ELSE IF r = SelfAmplitudes THEN (IF al # None THEN Val(al) ELSE heap[amplitudes])
            ELSE IF r = HeldFrequencies THEN (IF heldF THEN heap[frequencies] ELSE heap[r])
            ELSE (IF heldA THEN heap[amplitudes] ELSE heap[r])]

\* the report a caller holds, after the same rebinding: it keeps the objects
\* it was given
RebindInfo(fl, al) ==
    IF info = NoInfo THEN NoInfo
    ELSE <<[info[1] EXCEPT
              !.frequencies = IF fl # None /\ @ = frequencies THEN HeldFrequencies ELSE @,
              !.amplitudes = IF al # None /\ @ = amplitudes THEN HeldAmplitudes ELSE @]>>

----------------------------------------------------------------------------
(* Parameter store: set_channels, set_frequency, set_amplitude,            *)
(* get_channel_info, update_channel, update_all_channels                   *)

CtlReady == ctlpc = "idle" /\ lock = "free"

\* a fallback clamped to the requested channel count
GetMaxOutputChannelsClampedFallback(q, n) ==
    IF q.ok THEN Min(q.max_output_channels, n) ELSE Min(2, n)

\* the device's channel count taken as it is
GetMaxOutputChannelsUnclamped(q, n) ==
    IF q.ok THEN q.max_output_channels ELSE 2

\* get_max_output_channels
GetMaxOutputChannels(q, n) ==
    IF q.ok THEN Min(q.max_output_channels, n) ELSE 2

\* set_channels, up to the device query: the lock is taken and held
SetChannelsBegin(n) ==
    /\ CtlReady
    /\ num_channels' = n
    /\ heap' = RebindHeap(Some(Repeat(DefaultFrequency, n)), Some(Repeat(DefaultAmplitude, n)))
    /\ info' = RebindInfo(Some(Repeat(DefaultFrequency, n)), Some(Repeat(DefaultAmplitude, n)))
    /\ frequencies' = SelfFrequencies
    /\ amplitudes' = SelfAmplitudes
    /\ lock' = "ctl"
    /\ ctlpc' = "query"
    /\ UNCHANGED <<available_channels, call, threadVars, cbVars>>

\* set_channels, the device query and the release of the lock
SetChannelsQuery(q) ==
    /\ ctlpc = "query"
    /\ available_channels' = GetMaxOutputChannels(q, num_channels)
    /\ lock' = "free"
    /\ ctlpc' = "idle"
    /\ call' = Returned("set_channels", num_channels, NoError)
    /\ UNCHANGED <<num_channels, frequencies, amplitudes, heap, info, threadVars, cbVars>>

\* the range check without its lower bound: a negative channel then indexes
\* the list from its end
ValidChannelNoLowerBound(c) == c < num_channels

\* 0 <= channel < self.num_channels
ValidChannel(c) == 0 <= c /\ c < num_channels

SetFrequency(c, f) ==
    /\ CtlReady
    /\ IF ValidChannel(c)
       THEN IF InRange(heap[frequencies], c)
            THEN /\ heap' = [heap EXCEPT ![frequencies] = SetItem(@, c, f)]
                 /\ call' = Returned("set_frequency", c, NoError)
            ELSE /\ call' = Returned("set_frequency", c, "IndexError")
                 /\ UNCHANGED heap
       ELSE /\ call' = Returned("set_frequency", c, NoError)
            /\ UNCHANGED heap
    /\ UNCHANGED <<num_channels, available_channels, frequencies, amplitudes, info,
                   lock, ctlpc, threadVars, cbVars>>

SetAmplitude(c, a) ==
    /\ CtlReady
    /\ IF ValidChannel(c)
       THEN IF InRange(heap[amplitudes], c)
            THEN /\ heap' = [heap EXCEPT ![amplitudes] = SetItem(@, c, a)]
                 /\ call' = Returned("set_amplitude", c, NoError)
            ELSE /\ call' = Returned("set_amplitude", c, "IndexError")
                 /\ UNCHANGED heap
       ELSE /\ call' = Returned("set_amplitude", c, NoError)
            /\ UNCHANGED heap
    /\ UNCHANGED <<num_channels, available_channels, frequencies, amplitudes, info,
                   lock, ctlpc, threadVars, cbVars>>

GetChannelInfo ==
    /\ CtlReady
    /\ info' = <<[num_channels |-> num_channels,
                  available_channels |-> available_channels,
                  frequencies |-> frequencies,
                  amplitudes |-> amplitudes]>>
    /\ heap' = [heap EXCEPT ![HeldFrequencies] = <<>>, ![HeldAmplitudes] = <<>>]
    /\ call' = Returned("get_channel_info", 0, NoError)
    /\ UNCHANGED <<num_channels, available_channels, frequencies, amplitudes,
                   lock, ctlpc, threadVars, cbVars>>

\* update_channel: the frequency is stored first, then the amplitude; an
\* IndexError leaves what was stored before it
UpdateChannel(c, f, a) ==
    /\ CtlReady
    /\ IF ValidChannel(c)
       THEN LET fOK == f = None \/ InRange(heap[frequencies], c)
                aOK == a = None \/ InRange(heap[amplitudes], c)
                h1  == IF f # None /\ fOK
                       THEN [heap EXCEPT ![frequencies] = SetItem(@, c, Val(f))]
                       ELSE heap
                h2  == IF fOK /\ a # None /\ aOK
                       THEN [h1 EXCEPT ![amplitudes] = SetItem(@, c, Val(a))]
                       ELSE h1
            IN  /\ heap' = h2
                /\ call' = Returned("update_channel", c, IF fOK /\ aOK THEN NoError ELSE "IndexError")
       ELSE /\ call' = Returned("update_channel", c, NoError)
            /\ UNCHANGED heap
    /\ UNCHANGED <<num_channels, available_channels, frequencies, amplitudes, info,
                   lock, ctlpc, threadVars, cbVars>>

\* update_all_channels: each given list is sliced into a new list, which
\* replaces the stored one
UpdateAllChannels(fs, as) ==
    /\ CtlReady
    /\ LET fl == IF fs = None THEN None ELSE Some(SliceTo(Val(fs), num_channels))
           al == IF as = None THEN None ELSE Some(SliceTo(Val(as), num_channels))
       IN  /\ heap' = RebindHeap(fl, al)
           /\ info' = RebindInfo(fl, al)
    /\ frequencies' = SelfFrequencies
    /\ amplitudes' = SelfAmplitudes
    /\ call' = Returned("update_all_channels", 0, NoError)
    /\ UNCHANGED <<num_channels, available_channels, lock, ctlpc, threadVars, cbVars>>

\* what get_channel_info() reports in this state, the lists read out
ChannelInfo ==
    [num_channels |-> num_channels,
     available_channels |-> available_channels,
     frequencies |-> heap[frequencies],
     amplitudes |-> heap[amplitudes]]

----------------------------------------------------------------------------
(* Construction *)

\* __init__(initial_channels): the fields, then set_channels(initial_channels)
Init ==
    \E n \in ChannelCounts, q \in QueryResults :
        /\ num_channels = n
        /\ frequencies = SelfFrequencies
        /\ amplitudes = SelfAmplitudes
        /\ heap = [r \in Refs |->
                     IF r = SelfFrequencies THEN Repeat(DefaultFrequency, n)
                     ELSE IF r = SelfAmplitudes THEN Repeat(DefaultAmplitude, n)
                     ELSE <<>>]
        /\ available_channels = GetMaxOutputChannels(q, n)
        /\ info = NoInfo
        /\ call = Returned("__init__", n, NoError)
        /\ lock = "free"
        /\ ctlpc = "idle"
        /\ is_playing = FALSE
        /\ thread = NoThread
        /\ wpc = [w \in Workers |-> "dead"]
        /\ werr = [w \in Workers |-> FALSE]
        /\ stream = [w \in Workers |-> ClosedStream]
        /\ cbpc = [w \in Workers |-> "idle"]
        /\ chunk = [w \in Workers |-> NoChunk]
        /\ framesRendered = [w \in Workers |-> 0]

----------------------------------------------------------------------------
(* The control API, one call after another *)

DoSetChannels == \E n \in ChannelCounts : SetChannelsBegin(n)
DoQuery == \E q \in QueryResults : SetChannelsQuery(q)
DoSetFrequency == \E c \in ChannelArgs, f \in Freqs : SetFrequency(c, f)
DoSetAmplitude == \E c \in ChannelArgs, a \in Amps : SetAmplitude(c, a)
DoUpdateChannel ==
    \E c \in ChannelArgs, f \in Optional(Freqs), a \in Optional(Amps) :
        UpdateChannel(c, f, a)
DoUpdateAllChannels ==
    \E fs \in Optional(FreqLists), as \in Optional(AmpLists) :
        UpdateAllChannels(fs, as)

Next ==
    \/ DoSetChannels
    \/ DoQuery
    \/ DoSetFrequency
    \/ DoSetAmplitude
    \/ DoUpdateChannel
    \/ DoUpdateAllChannels

Spec == Init /\ [][Next]_vars

----------------------------------------------------------------------------
(* Reports: get_channel_info() between the calls that update channel 0 or  *)
(* all channels                                                            *)

ReportSetFrequency == \E f \in Freqs : SetFrequency(0, f)
ReportSetAmplitude == \E a \in Amps : SetAmplitude(0, a)
ReportUpdateChannel ==
    \E f \in Optional(Freqs), a \in Optional(Amps) : UpdateChannel(0, f, a)
ReportUpdateAllChannels ==
    \E fs \in Optional(FreqLists), as \in Optional(AmpLists) :
        UpdateAllChannels(fs, as)

ReportNext ==
    \/ GetChannelInfo
    \/ ReportSetFrequency
    \/ ReportSetAmplitude
    \/ ReportUpdateChannel
    \/ ReportUpdateAllChannels

ReportSpec == Init /\ [][ReportNext]_vars

----------------------------------------------------------------------------
(* start() and stop(), on the control context *)

\* the control context enters start()
CallStart ==
    /\ ctlpc = "idle"
    /\ ctlpc' = "start"
    /\ UNCHANGED <<storeVars, info, call, lock, threadVars, cbVars>>

\* start() without its check of is_playing
NeverAlreadyPlaying == FALSE

\* if self.is_playing
AlreadyPlaying == is_playing

\* if self.is_playing: print("Already playing"); return
StartCheck ==
    /\ ctlpc = "start"
    /\ IF AlreadyPlaying
       THEN /\ ctlpc' = "idle"
            /\ call' = ReturnedAfterPrint("start", "Already playing")
       ELSE /\ ctlpc' = "start_set"
            /\ UNCHANGED call
    /\ UNCHANGED <<storeVars, info, lock, threadVars, cbVars>>

\* self.is_playing = True
StartSet ==
    /\ ctlpc = "start_set"
    /\ is_playing' = TRUE
    /\ ctlpc' = "start_thread"
    /\ UNCHANGED <<storeVars, info, call, lock, thread, wpc, werr, stream, cbVars>>

\* self.thread = threading.Thread(target=run); self.thread.start()
StartThread ==
    /\ ctlpc = "start_thread"
    /\ \E w \in Workers :
        /\ wpc[w] = "dead"
        /\ \A v \in Workers : wpc[v] = "dead" => w <= v
        /\ thread' = w
        /\ wpc' = [wpc EXCEPT ![w] = "open"]
        /\ werr' = [werr EXCEPT ![w] = FALSE]
    /\ ctlpc' = "idle"
    /\ call' = Returned("start", 0, NoError)
    /\ UNCHANGED <<storeVars, info, lock, is_playing, stream, cbVars>>

\* the control context enters stop()
CallStop ==
    /\ ctlpc = "idle"
    /\ ctlpc' = "stop"
    /\ UNCHANGED <<storeVars, info, call, lock, threadVars, cbVars>>

\* self.is_playing = False; if self.thread: ...
StopClear ==
    /\ ctlpc = "stop"
    /\ is_playing' = FALSE
    /\ IF thread # NoThread
       THEN /\ ctlpc' = "join"
            /\ UNCHANGED call
       ELSE /\ ctlpc' = "idle"
            /\ call' = Returned("stop", 0, NoError)
    /\ UNCHANGED <<storeVars, info, lock, thread, wpc, werr, stream, cbVars>>

\* a join that does not wait
JoinedWithoutWaiting(w) == TRUE

\* Thread.join returns once the thread has ended
Joined(w) == wpc[w] = "dead"

\* self.thread.join()
StopJoin ==
    /\ ctlpc = "join"
    /\ Joined(thread)
    /\ ctlpc' = "idle"
    /\ call' = Returned("stop", 0, NoError)
    /\ UNCHANGED <<storeVars, info, lock, threadVars, cbVars>>

----------------------------------------------------------------------------
(* run(), on a worker thread *)

\* with sd.OutputStream(channels=self.available_channels, ...): the stream
\* opens and starts, or the constructor raises (always when the channel
\* count is below 1)
WorkerOpen(w, ok) ==
    /\ wpc[w] = "open"
    /\ IF ok /\ available_channels >= 1
       THEN /\ stream' = [stream EXCEPT ![w] = [state |-> "active",
                                                channels |-> available_channels]]
            /\ wpc' = [wpc EXCEPT ![w] = "loop"]
            /\ UNCHANGED werr
       ELSE /\ werr' = [werr EXCEPT ![w] = TRUE]
            /\ wpc' = [wpc EXCEPT ![w] = "finally"]
            /\ UNCHANGED stream
    /\ UNCHANGED <<storeVars, info, call, lock, ctlpc, is_playing, thread, cbVars>>

\* a loop that never looks at the flag
WorkerLoopIgnoringFlag(w) ==
    /\ wpc[w] = "loop"
    /\ wpc' = [wpc EXCEPT ![w] = "sleep"]
    /\ UNCHANGED <<storeVars, info, call, lock, ctlpc, is_playing, thread, werr,
                   stream, cbVars>>

\* while self.is_playing
WorkerLoop(w) ==
    /\ wpc[w] = "loop"
    /\ wpc' = [wpc EXCEPT ![w] = IF is_playing THEN "sleep" ELSE "close"]
    /\ UNCHANGED <<storeVars, info, call, lock, ctlpc, is_playing, thread, werr,
                   stream, cbVars>>

\* sd.sleep(1000) returns
WorkerSleep(w) ==
    /\ wpc[w] = "sleep"
    /\ wpc' = [wpc EXCEPT ![w] = "loop"]
    /\ UNCHANGED <<storeVars, info, call, lock, ctlpc, is_playing, thread, werr,
                   stream, cbVars>>

\* an exception inside the with block
WorkerError(w) ==
    /\ wpc[w] = "sleep"
    /\ werr' = [werr EXCEPT ![w] = TRUE]
    /\ wpc' = [wpc EXCEPT ![w] = "close"]
    /\ UNCHANGED <<storeVars, info, call, lock, ctlpc, is_playing, thread, stream, cbVars>>

\* leaving the with block closes the stream; the close returns when no
\* callback of the stream is running
WorkerClose(w) ==
    /\ wpc[w] = "close"
    /\ cbpc[w] = "idle"
    /\ stream' = [stream EXCEPT ![w] = ClosedStream]
    /\ framesRendered' = [framesRendered EXCEPT ![w] = 0]
    /\ wpc' = [wpc EXCEPT ![w] = "finally"]
    /\ UNCHANGED <<storeVars, info, call, lock, ctlpc, is_playing, thread, werr, cbpc, chunk>>

\* a finally clause that runs on the normal path only
WorkerFinallyUnlessError(w) ==
    /\ wpc[w] = "finally"
    /\ is_playing' = IF werr[w] THEN is_playing ELSE FALSE
    /\ wpc' = [wpc EXCEPT ![w] = "exiting"]
    /\ UNCHANGED <<storeVars, info, call, lock, ctlpc, thread, werr, stream, cbVars>>

\* except Exception: print(...); finally: self.is_playing = False
WorkerFinally(w) ==
    /\ wpc[w] = "finally"
    /\ is_playing' = FALSE
    /\ wpc' = [wpc EXCEPT ![w] = "exiting"]
    /\ UNCHANGED <<storeVars, info, call, lock, ctlpc, thread, werr, stream, cbVars>>

\* run() returns and the thread ends
WorkerExit(w) ==
    /\ wpc[w] = "exiting"
    /\ wpc' = [wpc EXCEPT ![w] = "dead"]
    /\ UNCHANGED <<storeVars, info, call, lock, ctlpc, is_playing, thread, werr,
                   stream, cbVars>>

----------------------------------------------------------------------------
(* audio_callback and generate_chunk, on the audio subsystem's thread *)

\* np.arange(num_frames)
Arange(n) == [i \in 1..n |-> i - 1]

\* the audio subsystem calls audio_callback(outdata, frames, time, status)
\* on an active stream
CallbackBegin(w, n) ==
    /\ stream[w].state = "active"
    /\ cbpc[w] = "idle"
    /\ framesRendered[w] + n <= MaxFrames
    /\ cbpc' = [cbpc EXCEPT ![w] = "acquire"]
    /\ chunk' = [chunk EXCEPT ![w] = <<[frames |-> n, t |-> <<>>, channels |-> 0,
                                        amplitudes |-> <<>>, frequencies |-> <<>>]>>]
    /\ UNCHANGED <<storeVars, info, call, lock, ctlpc, threadVars, framesRendered>>

\* generate_chunk entered without taking the lock
CallbackAcquireWithoutLock(w) ==
    /\ cbpc[w] = "acquire"
    /\ cbpc' = [cbpc EXCEPT ![w] = "render"]
    /\ UNCHANGED <<storeVars, info, call, lock, ctlpc, threadVars, chunk, framesRendered>>

\* generate_chunk: with self.lock
CallbackAcquire(w) ==
    /\ cbpc[w] = "acquire"
    /\ lock = "free"
    /\ lock' = "callback"
    /\ cbpc' = [cbpc EXCEPT ![w] = "render"]
    /\ UNCHANGED <<storeVars, info, call, ctlpc, threadVars, chunk, framesRendered>>

\* an exception leaves audio_callback, which has no handler: the audio
\* subsystem aborts the stream
Propagate(w) == [stream EXCEPT ![w].state = "aborted"]

\* generate_chunk under the lock: column i of the block is
\* amplitudes[i] * sin(2 pi frequencies[i] t), for i in range(available_channels);
\* a missing list entry raises IndexError and the lock is released
CallbackRender(w) ==
    /\ cbpc[w] = "render"
    /\ lock' = "free"
    /\ IF /\ available_channels >= 0
          /\ \A i \in 0..(available_channels - 1) :
                InRange(heap[amplitudes], i) /\ InRange(heap[frequencies], i)
       THEN /\ chunk' = [chunk EXCEPT ![w] =
                            <<[frames |-> chunk[w][1].frames,
                               t |-> Arange(chunk[w][1].frames),
                               channels |-> available_channels,
                               amplitudes |-> [i \in 1..available_channels |->
                                                 GetItem(heap[amplitudes], i - 1)],
                               frequencies |-> [i \in 1..available_channels |->
                                                  GetItem(heap[frequencies], i - 1)]]>>]
            /\ cbpc' = [cbpc EXCEPT ![w] = "write"]
            /\ UNCHANGED stream
       ELSE /\ chunk' = [chunk EXCEPT ![w] = NoChunk]
            /\ cbpc' = [cbpc EXCEPT ![w] = "idle"]
            /\ stream' = Propagate(w)
    /\ UNCHANGED <<storeVars, info, call, ctlpc, is_playing, thread, wpc, werr,
                   framesRendered>>

\* numpy assigns a (frames, c) block to a (frames, channels) buffer when
\* c = channels or c = 1
Broadcastable(c, channels) == c = channels \/ c = 1

\* outdata[:] = chunk
CallbackWrite(w) ==
    /\ cbpc[w] = "write"
    /\ IF Broadcastable(chunk[w][1].channels, stream[w].channels)
       THEN /\ framesRendered' = [framesRendered EXCEPT ![w] = @ + chunk[w][1].frames]
            /\ UNCHANGED stream
       ELSE /\ stream' = Propagate(w)
            /\ UNCHANGED framesRendered
    /\ chunk' = [chunk EXCEPT ![w] = NoChunk]
    /\ cbpc' = [cbpc EXCEPT ![w] = "idle"]
    /\ UNCHANGED <<storeVars, info, call, lock, ctlpc, is_playing, thread, wpc, werr>>

----------------------------------------------------------------------------
(* update_channel statement by statement, as the callback can meet it *)

\* update_channel up to its first store: the lock is taken, and kept when
\* the amplitude store is still to come
UpdateChannelStoreFrequency(c, f) ==
    /\ CtlReady
    /\ IF ~ValidChannel(c)
       THEN /\ call' = Returned("update_channel", c, NoError)
            /\ UNCHANGED <<heap, lock, ctlpc>>
       ELSE IF f # None /\ ~InRange(heap[frequencies], c)
       THEN /\ call' = Returned("update_channel", c, "IndexError")
            /\ UNCHANGED <<heap, lock, ctlpc>>
       ELSE /\ heap' = IF f = None THEN heap
                       ELSE [heap EXCEPT ![frequencies] = SetItem(@, c, Val(f))]
            /\ lock' = "ctl"
            /\ ctlpc' = "update_amplitude"
            /\ UNCHANGED call
    /\ UNCHANGED <<num_channels, available_channels, frequencies, amplitudes, info,
                   threadVars, cbVars>>

\* update_channel from its second store to the release of the lock
UpdateChannelStoreAmplitude(c, a) ==
    /\ ctlpc = "update_amplitude"
    /\ IF a # None /\ ~InRange(heap[amplitudes], c)
       THEN /\ call' = Returned("update_channel", c, "IndexError")
            /\ UNCHANGED heap
       ELSE /\ call' = Returned("update_channel", c, NoError)
            /\ heap' = IF a = None THEN heap
                       ELSE [heap EXCEPT ![amplitudes] = SetItem(@, c, Val(a))]
    /\ lock' = "free"
    /\ ctlpc' = "idle"
    /\ UNCHANGED <<num_channels, available_channels, frequencies, amplitudes, info,
                   threadVars, cbVars>>

----------------------------------------------------------------------------
(* The generator playing: control context, workers and callbacks *)

\* one channel or two: with the fallback of 2 and a device of 1 or more
\* channels, available_channels is below, at and above num_channels
StreamChannelCounts == {1, 2}

StreamSetChannels == \E n \in StreamChannelCounts : SetChannelsBegin(n)
StreamQuery == \E q \in QueryResults : SetChannelsQuery(q)
StreamSetFrequency == \E f \in Freqs : SetFrequency(0, f)
\* update_channel(0, frequency=880, amplitude=0.8)
StreamUpdateChannel == UpdateChannelStoreFrequency(0, Some(880))
StreamUpdateChannelEnd == UpdateChannelStoreAmplitude(0, Some(8))
StreamUpdateAllChannels == UpdateAllChannels(Some(<<>>), None)

StreamNext ==
    \/ StreamSetChannels
    \/ StreamQuery
    \/ StreamSetFrequency
    \/ StreamUpdateChannel
    \/ StreamUpdateChannelEnd
    \/ StreamUpdateAllChannels
    \/ CallStart
    \/ StartCheck
    \/ StartSet
    \/ StartThread
    \/ CallStop
    \/ StopClear
    \/ StopJoin
    \/ \E w \in Workers :
        \/ \E ok \in BOOLEAN : WorkerOpen(w, ok)
        \/ WorkerLoop(w)
        \/ WorkerSleep(w)
        \/ WorkerError(w)
        \/ WorkerClose(w)
        \/ WorkerFinally(w)
        \/ WorkerExit(w)
        \/ \E n \in BlockSizes : CallbackBegin(w, n)
        \/ CallbackAcquire(w)
        \/ CallbackRender(w)
        \/ CallbackWrite(w)

StreamInit == Init /\ num_channels \in StreamChannelCounts

StreamSpec == StreamInit /\ [][StreamNext]_vars

----------------------------------------------------------------------------
(* The generator playing under a stream of set_frequency calls, with the   *)
(* threads scheduled fairly: a call of stop() that has begun runs on, each *)
(* worker and each callback takes its next step, and the close of a stream *)
(* gets its turn between callbacks                                         *)

FairNext ==
    \/ StreamSetFrequency
    \/ CallStart
    \/ StartCheck
    \/ StartSet
    \/ StartThread
    \/ CallStop
    \/ StopClear
    \/ StopJoin
    \/ \E w \in Workers :
        \/ \E ok \in BOOLEAN : WorkerOpen(w, ok)
        \/ WorkerLoop(w)
        \/ WorkerSleep(w)
        \/ WorkerError(w)
        \/ WorkerClose(w)
        \/ WorkerFinally(w)
        \/ WorkerExit(w)
        \/ \E n \in BlockSizes : CallbackBegin(w, n)
        \/ CallbackAcquire(w)
        \/ CallbackRender(w)
        \/ CallbackWrite(w)

Fairness ==
    /\ WF_vars(StopClear)
    /\ WF_vars(StopJoin)
    /\ \A w \in Workers :
        /\ WF_vars(\E ok \in BOOLEAN : WorkerOpen(w, ok))
        /\ WF_vars(WorkerLoop(w))
        /\ WF_vars(WorkerSleep(w) \/ WorkerError(w))
        /\ SF_vars(WorkerClose(w))
        /\ WF_vars(WorkerFinally(w))
        /\ WF_vars(WorkerExit(w))
        /\ WF_vars(CallbackAcquire(w))
        /\ WF_vars(CallbackRender(w))
        /\ WF_vars(CallbackWrite(w))

FairSpec == StreamInit /\ [][FairNext]_vars /\ Fairness

----------------------------------------------------------------------------
(* Properties of the parameter store *)

OutOfRange(c) == c < 0 \/ c >= num_channels

\* C1: for a channel c with 0 <= c < num_channels, set_frequency(c, f) does
\* not raise, and get_channel_info() then reports frequencies[c] = f with
\* every other frequency, every amplitude, num_channels and
\* available_channels as before.
C1_SetFrequencyReported ==
    [][\A c \in ChannelArgs, f \in Freqs :
          (~OutOfRange(c) /\ SetFrequency(c, f)) =>
              /\ call'.raised = NoError
              /\ Len(ChannelInfo'.frequencies) = Len(ChannelInfo.frequencies)
              /\ c < Len(ChannelInfo'.frequencies)
              /\ ChannelInfo'.frequencies[c + 1] = f
              /\ \A i \in 1..Len(ChannelInfo.frequencies) :
                     i # c + 1 => ChannelInfo'.frequencies[i] = ChannelInfo.frequencies[i]
              /\ ChannelInfo'.amplitudes = ChannelInfo.amplitudes
              /\ ChannelInfo'.num_channels = ChannelInfo.num_channels
              /\ ChannelInfo'.available_channels = ChannelInfo.available_channels]_vars

\* C2: with a channel index outside [0, num_channels), set_frequency,
\* set_amplitude and update_channel return without an exception and leave
\* num_channels, available_channels, frequencies and amplitudes as they were.
C2_OutOfRangeIsNoOp ==
    [][\A c \in ChannelArgs :
          (/\ OutOfRange(c)
           /\ \/ \E f \in Freqs : SetFrequency(c, f)
              \/ \E a \in Amps : SetAmplitude(c, a)
              \/ \E f \in Optional(Freqs), a \in Optional(Amps) : UpdateChannel(c, f, a))
          => (call'.raised = NoError /\ ChannelInfo' = ChannelInfo
              /\ UNCHANGED <<frequencies, amplitudes, heap>>)]_vars

\* a call with a negative channel index has returned while the lists hold
\* values other than the defaults
C2_Witness ==
    /\ call.op \in {"set_frequency", "set_amplitude", "update_channel"}
    /\ call.arg < 0
    /\ call.raised = NoError
    /\ Len(heap[frequencies]) = num_channels
    /\ \E i \in 1..Len(heap[frequencies]) : heap[frequencies][i] # DefaultFrequency

\* C3: update_all_channels with a list of length k < num_channels leaves
\* entries [0, k) of the stored list equal to the given values and entries
\* [k, num_channels) as they were before the call (frequencies and
\* amplitudes alike).
PrefixReplaced(given, old, new) ==
    /\ Len(new) = Len(old)
    /\ \A i \in 1..Len(given) : new[i] = given[i]
    /\ \A i \in (Len(given) + 1)..Len(old) : new[i] = old[i]

C3_ShortListReplacesPrefix ==
    [][\A fs \in Optional(FreqLists), as \in Optional(AmpLists) :
          UpdateAllChannels(fs, as) =>
              /\ (fs # None /\ Len(Val(fs)) < num_channels
                     /\ Len(heap[frequencies]) = num_channels)
                  => PrefixReplaced(Val(fs), heap[frequencies], heap'[frequencies'])
              /\ (as # None /\ Len(Val(as)) < num_channels
                     /\ Len(heap[amplitudes]) = num_channels)
                  => PrefixReplaced(Val(as), heap[amplitudes], heap'[amplitudes'])]_vars

\* C10: set_channels(n) leaves num_channels = n, n frequencies all 440,
\* n amplitudes all 0.5, and available_channels <= n.
C10_SetChannelsResets ==
    [][/\ \A n \in ChannelCounts : SetChannelsBegin(n) => num_channels' = n
       /\ \A q \in QueryResults :
              SetChannelsQuery(q) =>
                  /\ num_channels' = num_channels
                  /\ heap'[frequencies'] = Repeat(DefaultFrequency, num_channels')
                  /\ heap'[amplitudes'] = Repeat(DefaultAmplitude, num_channels')
                  /\ available_channels' <= num_channels']_vars

\* C11: when the device query fails, set_channels (which construction runs
\* too) sets available_channels to 2 whatever channel count was requested,
\* and returns without an exception.
C11_QueryFailureFallsBackToTwo ==
    [][SetChannelsQuery(QueryFails) =>
          /\ available_channels' = 2
          /\ call'.op = "set_channels"
          /\ call'.raised = NoError
          /\ ctlpc' = "idle"]_vars

\* set_channels(1) has returned with 2 available channels: only the fallback
\* gives more channels than were requested
C11_Witness ==
    /\ ctlpc = "idle"
    /\ call.op = "set_channels"
    /\ call.arg = 1
    /\ num_channels = 1
    /\ available_channels = 2

\* C12: when the device query succeeds and reports deviceMax output
\* channels, set_channels(n) sets available_channels to min(n, deviceMax).
C12_AvailableIsMinOfRequestedAndDevice ==
    [][\A q \in QueryResults :
          (q.ok /\ SetChannelsQuery(q)) =>
              /\ available_channels' <= num_channels'
              /\ available_channels' <= q.max_output_channels
              /\ available_channels' \in {num_channels', q.max_output_channels}
              /\ call'.arg = num_channels']_vars

\* set_channels has returned with fewer available channels than requested:
\* the device's count
C12_Witness ==
    /\ ctlpc = "idle"
    /\ call.op = "set_channels"
    /\ call.arg = MaxChannels
    /\ available_channels = 1
    /\ available_channels < num_channels

\* C16: 0 <= available_channels <= num_channels in every reachable state.
C16_AvailableWithinChannels ==
    0 <= available_channels /\ available_channels <= num_channels

\* C17: the stored frequencies and amplitudes lists each have length
\* num_channels, and only set_channels changes their length.
C17_ListLengthIsNumChannels ==
    /\ [](Len(heap[frequencies]) = num_channels /\ Len(heap[amplitudes]) = num_channels)
    /\ [][(Len(heap'[frequencies']) # Len(heap[frequencies])
             \/ Len(heap'[amplitudes']) # Len(heap[amplitudes]))
           => \E n \in ChannelCounts : SetChannelsBegin(n)]_vars

----------------------------------------------------------------------------
(* Properties of reports *)

\* the lists a returned report shows to the caller holding it
ReportContents ==
    [frequencies |-> heap[info[1].frequencies],
     amplitudes |-> heap[info[1].amplitudes]]

\* C4: a report returned by get_channel_info() is a point-in-time copy: no
\* later set_frequency, set_amplitude, update_channel or
\* update_all_channels call changes the frequencies or amplitudes in it.
C4_ReportIsPointInTimeCopy ==
    [][(/\ info # NoInfo
        /\ call'.op \in {"set_frequency", "set_amplitude", "update_channel",
                          "update_all_channels"})
       => (info' # NoInfo /\ ReportContents' = ReportContents)]_vars

----------------------------------------------------------------------------
(* Properties of the stream driver *)

\* the control context is between calls and its last call was op
LastReturned(op) == ctlpc = "idle" /\ call.op = op

\* C5: once stop() has returned, no audio_callback invocation is running or
\* can begin: every stream is closed and every callback has ended.
C5_NoCallbackAfterStop ==
    LastReturned("stop") =>
        \A w \in Workers : cbpc[w] = "idle" /\ stream[w].state = "closed"

\* stop() has returned after joining a worker that had opened its stream and
\* left its loop without an exception
C5_Witness ==
    /\ LastReturned("stop")
    /\ thread # NoThread
    /\ wpc[thread] = "dead"
    /\ ~werr[thread]

\* C6: start() while is_playing is set is a no-op: the call returns at once,
\* no worker thread is created, no stream is opened, and the workers are
\* where they were.
C6_StartWhilePlayingIsNoOp ==
    [][(ctlpc = "start" /\ ctlpc' # "start" /\ is_playing) =>
          /\ ctlpc' = "idle"
          /\ call'.op = "start"
          /\ UNCHANGED <<is_playing, thread, wpc, werr, stream>>]_vars

\* start() has returned with its notice while a worker holds an active stream
C6_Witness ==
    /\ LastReturned("start")
    /\ call.printed = "Already playing"
    /\ is_playing
    /\ thread # NoThread
    /\ stream[thread].state = "active"

\* C7: an exception raised inside audio_callback is caught there and never
\* reaches the audio subsystem, so no stream is aborted by one.
C7_CallbackExceptionsCaught ==
    \A w \in Workers : stream[w].state # "aborted"

\* C8: the time index of frame f of a rendered block is the number of frames
\* rendered by the earlier callbacks of the stream, plus f.
C8_TimeContinuesAcrossBlocks ==
    \A w \in Workers :
        cbpc[w] = "write" =>
            \A f \in 0..(chunk[w][1].frames - 1) :
                chunk[w][1].t[f + 1] = framesRendered[w] + f

\* C9: when the stream cannot be opened, or an exception is raised in the
\* worker while playing, start() has returned without an exception, and once
\* the worker has ended is_playing is False; a later start() then sets
\* is_playing and spawns a new worker.
WorkerFailed == thread # NoThread /\ werr[thread] /\ wpc[thread] = "dead"

C9_WorkerErrorEndsIdle ==
    /\ [](call.op = "start" => call.raised = NoError)
    /\ []((WorkerFailed /\ ctlpc # "start_thread") => ~is_playing)
    /\ [][(WorkerFailed /\ ctlpc = "start" /\ ctlpc' # "start") =>
             ctlpc' = "start_set"]_vars
    /\ [][(ctlpc = "start_thread" /\ ctlpc' # "start_thread") =>
             (is_playing' /\ wpc'[thread'] = "open" /\ ~werr'[thread'])]_vars

\* a worker has failed and ended, and the generator is idle
C9_Witness ==
    /\ WorkerFailed
    /\ ctlpc = "idle"
    /\ ~is_playing

C14_UpdateChannelAtomicForRenderer ==
    \A w \in Workers : cbpc[w] = "render" => ctlpc # "update_amplitude"

\* a callback waits for the lock while update_channel is between its two
\* stores
C14_Witness ==
    /\ ctlpc = "update_amplitude"
    /\ lock = "ctl"
    /\ \E w \in Workers : cbpc[w] = "acquire" /\ stream[w].state = "active"

\* C18: self.lock is never held by an operation while that operation
\* performs the device query, opens or closes the stream, or writes the
\* block into the output buffer.
C18_LockNotHeldAcrossDeviceCalls ==
    /\ ctlpc = "query" => lock # "ctl"
    /\ \A w \in Workers : cbpc[w] = "write" => lock # "callback"

\* C19: the block generate_chunk produces for a callback has as many
\* channels as the stream was opened with.
C19_BlockMatchesStreamChannels ==
    \A w \in Workers :
        cbpc[w] = "write" => chunk[w][1].channels = stream[w].channels

\* C20: at most one worker holds an open output stream.
OpenStreams == {w \in Workers : stream[w] # ClosedStream}

C20_AtMostOneOpenStream == Cardinality(OpenStreams) <= 1

\* two workers are alive: one has cleared is_playing and is ending, the
\* other, started since, holds the open stream
C20_Witness ==
    \E v, w \in Workers :
        /\ wpc[v] = "exiting"
        /\ wpc[w] \in {"loop", "sleep"}
        /\ stream[w].state = "active"

\* C15: with the callback running beside a stream of set_frequency calls,
\* a callback that wants the lock gets it, and a stop() that has begun
\* returns, with is_playing False and every stream closed.
C15_StopReturnsAndNoDeadlock ==
    /\ \A w \in Workers : (cbpc[w] = "acquire") ~> (cbpc[w] = "render")
    /\ (ctlpc = "stop") ~>
          (/\ LastReturned("stop")
           /\ ~is_playing
           /\ \A w \in Workers : stream[w] = ClosedStream /\ cbpc[w] = "idle")

\* stop() has returned after set_frequency(0, 880) was stored and blocks
\* were written on the worker's stream
C15_Witness ==
    /\ LastReturned("stop")
    /\ thread # NoThread
    /\ wpc[thread] = "dead"
    /\ ~werr[thread]
    /\ heap[frequencies][1] = 880

====
